---- MODULE Spec2Model ----
(***************************************************************************)
(* cargo-license: license expression normalisation (src/src/lib.rs,        *)
(* LicenseTree and normalize) and the dependency graph filter              *)
(* (get_dependencies_from_cargo_lock).                                     *)
(*                                                                         *)
(* A license string is modelled as the sequence of its lexical tokens: a   *)
(* license requirement (identifier, with its WITH clause when present) is  *)
(* one token, and so are OR, AND, "/", "(" and ")".  "?" stands for text   *)
(* that the spdx lexer does not accept.  White space is not modelled.      *)
(***************************************************************************)
EXTENDS Integers, Sequences, FiniteSets, TLC

(* ----------------------------- bounds --------------------------------- *)

\* number of distinct license requirements the inputs are built from
NumLicenses == 3
\* largest number of requirement leaves of a generated well-formed input
MaxLeaves == 4
\* largest length (in tokens) of an arbitrary, mostly malformed, input
MaxRawLen == 4
\* largest number of leaves of one operand of a generated "X op Y" input
MaxOperandLeaves == 3
\* number of distinct license requirements in the operands of an "X op Y" input
NumPairLicenses == 2
\* number of packages of a generated dependency graph
NumPackages == 3
\* largest number of edges of a generated graph whose edge kinds vary freely
MaxEdges == 3
\* largest number of edges of a generated graph whose package names, targets
\* and roots vary
MaxFilterEdges == 2

(* ------------------------- license requirements ----------------------- *)

\* spdx::LicenseReq values, listed in ascending order of LicenseReq::cmp
LicenseReqs == <<"Apache-2.0", "MIT", "OpenSSL", "Zlib", "curl">>

Licenses == {LicenseReqs[i] : i \in 1..NumLicenses}

\* position of a requirement in the order of LicenseReq::cmp
ReqRank(l) == CHOOSE i \in 1..Len(LicenseReqs) : LicenseReqs[i] = l

(* ------------------------------ state --------------------------------- *)

VARIABLES
    license_string,  \* the argument of normalize
    output,          \* the string normalize returned
    tree,            \* <<the tree after LicenseTree::normalize>>, or <<>> when
                     \* normalize returned before it had one
    npc,             \* "call" before normalize ran, "done" after
    eq_prec_pops,    \* spdx parser: an operator of equal precedence on the
                     \* operator stack is reduced before the new one is pushed
    operands,        \* <<A, op, B>> when license_string was written as
                     \* "A op B", <<>> otherwise
    metadata,        \* what `cargo metadata` returned
    opt,             \* GetDependenciesOpt
    stack,           \* the worklist of the traversal
    connected,       \* the package ids the traversal has visited
    detailed_dependencies,  \* the returned Vec<DependencyDetails>
    gpc,             \* "call", "walk" (in the while loop) or "done"
    iterations,      \* history: number of iterations of the while loop
    expansions       \* history: package id -> number of times its neighbours
                     \* were pushed

nvars == <<license_string, output, tree, npc, eq_prec_pops, operands>>

gvars == <<metadata, opt, stack, connected, detailed_dependencies, gpc,
           iterations, expansions>>

vars == <<nvars, gvars>>

(* ---------------------- LicenseTree (lib.rs 15-149) ------------------- *)

License(l) == [tag |-> "License", req |-> l]
Or(nodes) == [tag |-> "Or", nodes |-> nodes]
And(nodes) == [tag |-> "And", nodes |-> nodes]

RECURSIVE Flatten(_)
\* concatenation of a sequence of sequences
Flatten(ss) == IF ss = <<>> THEN <<>> ELSE Head(ss) \o Flatten(Tail(ss))

RECURSIVE license_iter(_)
\* the requirements of a tree, left to right
license_iter(t) ==
    IF t.tag = "License" THEN <<t.req>>
    ELSE Flatten([i \in 1..Len(t.nodes) |-> license_iter(t.nodes[i])])

RECURSIVE CmpFromShorterFirst(_, _, _)
\* CmpFrom with the two prefix cases exchanged
CmpFromShorterFirst(a, b, i) ==
    IF i > Len(a) /\ i > Len(b) THEN "Equal"
    ELSE IF i > Len(b) THEN "Greater"
    ELSE IF i > Len(a) THEN "Less"
    ELSE IF ReqRank(a[i]) < ReqRank(b[i]) THEN "Less"
    ELSE IF ReqRank(a[i]) > ReqRank(b[i]) THEN "Greater"
    ELSE CmpFromShorterFirst(a, b, i + 1)

RECURSIVE CmpFrom(_, _, _)
\* the loop of LicenseTree::cmp over the two leaf iterators, from position i
CmpFrom(a, b, i) ==
    IF i > Len(a) /\ i > Len(b) THEN "Equal"
    ELSE IF i > Len(b) THEN "Less"
    ELSE IF i > Len(a) THEN "Greater"
    ELSE IF ReqRank(a[i]) < ReqRank(b[i]) THEN "Less"
    ELSE IF ReqRank(a[i]) > ReqRank(b[i]) THEN "Greater"
    ELSE CmpFrom(a, b, i + 1)

\* LicenseTree_cmp that looks at the first requirement of each side only
CmpFirstLicense(self, other) ==
    CmpFrom(SubSeq(license_iter(self), 1, 1), SubSeq(license_iter(other), 1, 1), 1)

LicenseTree_cmp(self, other) == CmpFrom(license_iter(self), license_iter(other), 1)

\* x placed into an already sorted sequence, behind the elements it does not
\* sort before: the stable order that slice::sort_by produces
RECURSIVE InsertSorted(_, _)
InsertSorted(x, sorted) ==
    IF sorted = <<>> THEN <<x>>
    ELSE IF LicenseTree_cmp(x, Head(sorted)) = "Less" THEN <<x>> \o sorted
    ELSE <<Head(sorted)>> \o InsertSorted(x, Tail(sorted))

RECURSIVE InsertUnlessPresent(_, _)
InsertUnlessPresent(x, sorted) ==
    IF sorted = <<>> THEN <<x>>
    ELSE IF LicenseTree_cmp(x, Head(sorted)) = "Equal" THEN sorted
    ELSE IF LicenseTree_cmp(x, Head(sorted)) = "Less" THEN <<x>> \o sorted
    ELSE <<Head(sorted)>> \o InsertUnlessPresent(x, Tail(sorted))

RECURSIVE SortByDedup(_)
\* sort_by followed by a dedup of the children that compare equal
SortByDedup(nodes) ==
    IF nodes = <<>> THEN <<>>
    ELSE InsertUnlessPresent(nodes[Len(nodes)], SortByDedup(SubSeq(nodes, 1, Len(nodes) - 1)))

RECURSIVE sort_by(_)
sort_by(nodes) ==
    IF nodes = <<>> THEN <<>>
    ELSE InsertSorted(nodes[Len(nodes)], sort_by(SubSeq(nodes, 1, Len(nodes) - 1)))

\* Splice without the splicing: nested same-operator children stay
SpliceNothing(tag, nodes) == nodes

\* retain_mut of LicenseTree::normalize: the children that stay, then the
\* children of the removed same-operator children
Splice(tag, nodes) ==
    LET kept == SelectSeq(nodes, LAMBDA v : v.tag # tag)
        same == SelectSeq(nodes, LAMBDA v : v.tag = tag)
        acc  == Flatten([i \in 1..Len(same) |-> same[i].nodes])
    IN  kept \o acc

RECURSIVE LicenseTree_normalize(_)
LicenseTree_normalize(t) ==
    IF t.tag = "License" THEN t
    ELSE LET nodes == [i \in 1..Len(t.nodes) |-> LicenseTree_normalize(t.nodes[i])]
         IN  [tag |-> t.tag, nodes |-> sort_by(Splice(t.tag, nodes))]

RECURSIVE JoinWith(_, _)
\* the pieces of ss with sep between consecutive pieces
JoinWith(ss, sep) ==
    IF ss = <<>> THEN <<>>
    ELSE IF Len(ss) = 1 THEN ss[1]
    ELSE ss[1] \o <<sep>> \o JoinWith(Tail(ss), sep)

RECURSIVE SerializeInnerMinimal(_, _)
\* serialize_inner that leaves out the parentheses of a nested And node
SerializeInnerMinimal(t, is_first) ==
    IF t.tag = "License" THEN <<t.req>>
    ELSE LET need_parentheses == Len(t.nodes) # 1 /\ is_first /\ t.tag = "Or"
             body == JoinWith([i \in 1..Len(t.nodes) |->
                                  SerializeInnerMinimal(t.nodes[i], TRUE)],
                              IF t.tag = "Or" THEN "OR" ELSE "AND")
         IN  IF need_parentheses THEN <<"(">> \o body \o <<")">> ELSE body

RECURSIVE serialize_inner(_, _)
serialize_inner(t, is_first) ==
    IF t.tag = "License" THEN <<t.req>>
    ELSE LET need_parentheses == Len(t.nodes) # 1 /\ is_first
             body == JoinWith([i \in 1..Len(t.nodes) |-> serialize_inner(t.nodes[i], TRUE)],
                              IF t.tag = "Or" THEN "OR" ELSE "AND")
         IN  IF need_parentheses THEN <<"(">> \o body \o <<")">> ELSE body

serialize(t) == serialize_inner(t, FALSE)

(* ------------- spdx::Expression as used by normalize (lib.rs 153-163) -- *)

OrTokens == {"OR", "/"}
AndTokens == {"AND"}

\* Expression::canonicalize: Err when the lexer rejects the text, Ok(None)
\* when nothing has to be rewritten, Ok(Some(text)) with "/" spelled OR.
\* unwrap_or_default turns Err into None.
canonicalize(s) ==
    IF \E i \in 1..Len(s) : s[i] \notin Licenses \cup OrTokens \cup AndTokens \cup {"(", ")"}
    THEN [some |-> FALSE, text |-> <<>>]
    ELSE IF \E i \in 1..Len(s) : s[i] = "/"
    THEN [some |-> TRUE, text |-> [i \in 1..Len(s) |-> IF s[i] = "/" THEN "OR" ELSE s[i]]]
    ELSE [some |-> FALSE, text |-> <<>>]

Req(l) == [kind |-> "Req", req |-> l]
Op(o) == [kind |-> "Op", op |-> o]

\* AND binds tighter than OR
Prec(o) == IF o = "And" THEN 2 ELSE 1

RECURSIVE ReduceOps(_, _, _)
\* operators on top of the operator stack that are applied before new_op is
\* pushed
ReduceOps(ops, out, new_op) ==
    IF ops = <<>> \/ ops[Len(ops)] = "Open" THEN [ops |-> ops, out |-> out]
    ELSE LET top == ops[Len(ops)] IN
         IF Prec(top) > Prec(new_op) \/ (eq_prec_pops /\ Prec(top) = Prec(new_op))
         THEN ReduceOps(SubSeq(ops, 1, Len(ops) - 1), Append(out, Op(top)), new_op)
         ELSE [ops |-> ops, out |-> out]

RECURSIVE CloseParen(_, _)
\* operators applied by ")" down to the matching "("
CloseParen(ops, out) ==
    IF ops = <<>> THEN [ok |-> FALSE, ops |-> ops, out |-> out]
    ELSE IF ops[Len(ops)] = "Open"
    THEN [ok |-> TRUE, ops |-> SubSeq(ops, 1, Len(ops) - 1), out |-> out]
    ELSE CloseParen(SubSeq(ops, 1, Len(ops) - 1), Append(out, Op(ops[Len(ops)])))

RECURSIVE Drain(_, _)
\* end of input: the remaining operators, none of which may be an open "("
Drain(ops, out) ==
    IF ops = <<>> THEN [ok |-> TRUE, expr |-> out]
    ELSE IF ops[Len(ops)] = "Open" THEN [ok |-> FALSE, expr |-> <<>>]
    ELSE Drain(SubSeq(ops, 1, Len(ops) - 1), Append(out, Op(ops[Len(ops)])))

ParseError == [ok |-> FALSE, expr |-> <<>>]

RECURSIVE ParseFrom(_, _, _, _, _)
\* Expression::parse_mode(.., LAX) from token i: the expression in postfix
\* order, as Expression::iter yields it.  last is the class of the previous
\* token: "none", "req", "op", "open" or "close".
ParseFrom(s, i, ops, out, last) ==
    IF i > Len(s)
    THEN IF last \in {"req", "close"} THEN Drain(ops, out) ELSE ParseError
    ELSE LET tok == s[i] IN
         IF tok \in Licenses
         THEN IF last \in {"none", "op", "open"}
              THEN ParseFrom(s, i + 1, ops, Append(out, Req(tok)), "req")
              ELSE ParseError
         ELSE IF tok \in OrTokens \cup AndTokens
         THEN IF last \in {"req", "close"}
              THEN LET new_op == IF tok \in AndTokens THEN "And" ELSE "Or"
                       r == ReduceOps(ops, out, new_op)
                   IN  ParseFrom(s, i + 1, Append(r.ops, new_op), r.out, "op")
              ELSE ParseError
         ELSE IF tok = "("
         THEN IF last \in {"none", "op", "open"}
              THEN ParseFrom(s, i + 1, Append(ops, "Open"), out, "open")
              ELSE ParseError
         ELSE IF tok = ")"
         THEN IF last \in {"req", "close"}
              THEN LET r == CloseParen(ops, out)
                   IN  IF r.ok THEN ParseFrom(s, i + 1, r.ops, r.out, "close")
                       ELSE ParseError
              ELSE ParseError
         ELSE ParseError

parse_mode(s) == ParseFrom(s, 1, <<>>, <<>>, "none")

(* ----------------------- normalize (lib.rs 151-206) ------------------- *)

\* one ExprNode::Op of the loop at lib.rs 164-198: pop left, pop right, swap
\* when left > right, push the operator node
ApplyOp(req_stack, o) ==
    IF Len(req_stack) < 2 THEN [fail |-> TRUE, stack |-> req_stack]
    ELSE LET left == req_stack[Len(req_stack)]
             right == req_stack[Len(req_stack) - 1]
             rest == SubSeq(req_stack, 1, Len(req_stack) - 2)
             swap == LicenseTree_cmp(left, right) = "Greater"
             first == IF swap THEN right ELSE left
             second == IF swap THEN left ELSE right
         IN  [fail |-> FALSE,
              stack |-> Append(rest, IF o = "Or" THEN Or(<<first, second>>)
                                                 ELSE And(<<first, second>>))]

RECURSIVE BuildFrom(_, _, _)
\* the loop over license.iter() from position i
BuildFrom(expr, i, req_stack) ==
    IF i > Len(expr) THEN [fail |-> FALSE, stack |-> req_stack]
    ELSE IF expr[i].kind = "Req"
    THEN BuildFrom(expr, i + 1, Append(req_stack, License(expr[i].req)))
    ELSE LET r == ApplyOp(req_stack, expr[i].op)
         IN  IF r.fail THEN r ELSE BuildFrom(expr, i + 1, r.stack)

\* Fallback returning the string that was handed to the parser
FallbackCanon(license_str, canon) == IF canon.some THEN canon.text ELSE license_str

\* what normalize returns when it gives up
Fallback(license_str, canon) == license_str

\* normalize, with the tree it serialized next to the string it returns
NormalizeRun(license_str) ==
    LET canon == canonicalize(license_str)
        parsed == parse_mode(IF canon.some THEN canon.text ELSE license_str)
    IN  IF ~parsed.ok THEN [tree |-> <<>>, text |-> Fallback(license_str, canon)]
        ELSE LET built == BuildFrom(parsed.expr, 1, <<>>)
             IN  IF built.fail \/ Len(built.stack) # 1
                 THEN [tree |-> <<>>, text |-> Fallback(license_str, canon)]
                 ELSE LET normalized == LicenseTree_normalize(built.stack[1])
                      IN  [tree |-> <<normalized>>, text |-> serialize(normalized)]

normalize(license_str) == NormalizeRun(license_str).text

\* the parser accepts the string (after canonicalization, when that applies)
Parses(license_str) ==
    LET canon == canonicalize(license_str)
    IN  parse_mode(IF canon.some THEN canon.text ELSE license_str).ok

(* --------------------------- license strings -------------------------- *)

Tokens == Licenses \cup {"OR", "AND", "/", "(", ")", "?"}

\* every token sequence of at most MaxRawLen tokens
RawStrings == UNION {[1..n -> Tokens] : n \in 0..MaxRawLen}

\* an operand as it is written inside a larger expression
Paren(e) == IF Len(e) = 1 THEN e ELSE <<"(">> \o e \o <<")">>

Compose(a, op, b) == Paren(a) \o <<op>> \o Paren(b)

RECURSIVE ExprStrings(_)
\* the well-formed expressions with exactly n leaves, composite operands in
\* parentheses
ExprStrings(n) ==
    IF n = 1 THEN {<<l>> : l \in Licenses}
    ELSE UNION {{Compose(a, op, b) : a \in ExprStrings(k), b \in ExprStrings(n - k),
                                     op \in {"OR", "AND"}} : k \in 1..(n - 1)}

\* the same expressions without their parentheses: operator chains, which
\* the parser groups by precedence
Chain(e) == SelectSeq(e, LAMBDA tok : tok \notin {"(", ")"})

WellFormed == UNION {ExprStrings(n) : n \in 1..MaxLeaves}

PairLicenses == {LicenseReqs[i] : i \in 1..NumPairLicenses}

Operands ==
    {e \in UNION {ExprStrings(n) : n \in 1..MaxOperandLeaves} :
        \A i \in 1..Len(e) : e[i] \in Licenses => e[i] \in PairLicenses}

Inputs == RawStrings \cup WellFormed \cup {Chain(e) : e \in WellFormed}

(* ---------------------------- normalize runs -------------------------- *)

\* no dependency graph is being processed
GraphIdle ==
    /\ metadata = <<>>
    /\ opt = <<>>
    /\ stack = <<>>
    /\ connected = {}
    /\ detailed_dependencies = <<>>
    /\ gpc = "idle"
    /\ iterations = 0
    /\ expansions = <<>>

InitNormalize ==
    /\ GraphIdle
    /\ license_string \in Inputs
    /\ operands = <<>>
    /\ output = <<>>
    /\ tree = <<>>
    /\ npc = "call"
    /\ eq_prec_pops \in BOOLEAN

\* inputs of the form "A op B"
InitPairs ==
    /\ GraphIdle
    /\ \E a \in Operands, b \in Operands, op \in {"OR", "AND"} :
          /\ operands = <<Paren(a), op, Paren(b)>>
          /\ license_string = Compose(a, op, b)
    /\ output = <<>>
    /\ tree = <<>>
    /\ npc = "call"
    /\ eq_prec_pops \in BOOLEAN

\* DependencyDetails::new (lib.rs 276): the declared license is normalized
Normalize ==
    /\ npc = "call"
    /\ LET run == NormalizeRun(license_string)
       IN  /\ output' = run.text
           /\ tree' = run.tree
    /\ npc' = "done"
    /\ UNCHANGED <<license_string, eq_prec_pops, operands>>
    /\ UNCHANGED gvars

NextNormalize == Normalize

SpecNormalize == InitNormalize /\ [][NextNormalize]_vars

SpecPairs == InitPairs /\ [][NextNormalize]_vars

(* ------------- the dependency graph (cargo_metadata::Metadata) -------- *)

PackageIds == 1..NumPackages

\* package names, listed in ascending order of String::cmp
PackageNames == <<"alpha", "beta", "gamma", "omega", "zeta">>

NameRank(n) == CHOOSE i \in 1..Len(PackageNames) : PackageNames[i] = n

Range(f) == {f[i] : i \in DOMAIN f}

RECURSIVE Ascending(_)
\* the elements of a set of integers, in ascending order
Ascending(S) ==
    IF S = {} THEN <<>>
    ELSE LET m == CHOOSE x \in S : \A y \in S : x <= y
         IN  <<m>> \o Ascending(S \ {m})

\* Metadata for a graph given by the name of each package, the packages that
\* have a proc-macro target, the resolved edges with their dependency kinds,
\* and the root configuration.  Package.dependencies holds the declared
\* dependencies that the resolver turned into edges.  An Option is <<>> for
\* None and <<x>> for Some(x); a package has version i, a single target named
\* like the package, no authors and None in its optional fields unless
\* WithTargetName or WithFields say otherwise.
MakeMetadata(names, macros, edges, kinds, cfg) ==
    [packages |->
        [i \in PackageIds |->
            [id |-> i,
             name |-> PackageNames[names[i]],
             version |-> i,
             authors |-> <<>>,
             repository |-> <<>>,
             license |-> <<>>,
             license_file |-> <<>>,
             description |-> <<>>,
             targets |-> <<[name |-> PackageNames[names[i]],
                            crate_types |-> IF i \in macros THEN <<"proc-macro">>
                                                            ELSE <<"lib">>]>>,
             dependencies |->
                LET to == Ascending({j \in PackageIds : <<i, j>> \in edges})
                IN  [k \in 1..Len(to) |-> [name |-> PackageNames[names[to[k]]]]]]],
     resolve |->
        [root |-> cfg.root,
         nodes |->
            [i \in PackageIds |->
                LET to == Ascending({j \in PackageIds : <<i, j>> \in edges})
                IN  [k \in 1..Len(to) |-> [pkg |-> to[k], dep_kinds |-> kinds[<<i, to[k]>>]]]]],
     workspace_members |-> cfg.members]

\* md whose package i has its target (Cargo.toml [lib] name) named n
WithTargetName(md, i, n) ==
    [md EXCEPT !.packages[i].targets[1].name = n]

\* md whose packages have the version, authors, repository, license,
\* license_file and description that fields gives them
WithFields(md, fields) ==
    [md EXCEPT !.packages =
        [i \in PackageIds |->
            [md.packages[i] EXCEPT !.version = fields[i].version,
                                   !.authors = fields[i].authors,
                                   !.repository = fields[i].repository,
                                   !.license = fields[i].license,
                                   !.license_file = fields[i].license_file,
                                   !.description = fields[i].description]]]

\* Metadata::root_package: the package resolve.root names, if any
root_package(md) ==
    IF md.resolve.root = <<>> THEN <<>>
    ELSE SelectSeq(md.packages, LAMBDA p : p.id = md.resolve.root[1])

\* Metadata::workspace_packages
workspace_packages(md) ==
    SelectSeq(md.packages, LAMBDA p : p.id \in Range(md.workspace_members))

(* ------------------- the name filters (lib.rs 208-250) ---------------- *)

get_proc_macro_node_names(md, o) ==
    IF ~o.avoid_proc_macros THEN {}
    ELSE UNION {
        UNION {
            IF "proc-macro" \in Range(md.packages[i].targets[t].crate_types)
            THEN {md.packages[i].targets[t].name}
                 \cup {md.packages[i].dependencies[d].name :
                          d \in DOMAIN md.packages[i].dependencies}
            ELSE {} : t \in DOMAIN md.packages[i].targets} : i \in DOMAIN md.packages}

\* get_node_name_filter whose direct_deps_only branch leaves the roots out
NameFilterWithoutRoots(md, o) ==
    LET roots == IF root_package(md) # <<>> THEN root_package(md)
                 ELSE workspace_packages(md)
    IN  IF o.root_only THEN {roots[r].name : r \in DOMAIN roots}
        ELSE IF o.direct_deps_only
        THEN UNION {{roots[r].dependencies[d].name : d \in DOMAIN roots[r].dependencies}
                    : r \in DOMAIN roots}
        ELSE {}

get_node_name_filter(md, o) ==
    LET roots == IF root_package(md) # <<>> THEN root_package(md)
                 ELSE workspace_packages(md)
    IN  IF o.root_only THEN {roots[r].name : r \in DOMAIN roots}
        ELSE IF o.direct_deps_only
        THEN {roots[r].name : r \in DOMAIN roots}
             \cup UNION {{roots[r].dependencies[d].name : d \in DOMAIN roots[r].dependencies}
                         : r \in DOMAIN roots}
        ELSE {}

(* --------------------- the traversal (lib.rs 388-435) ----------------- *)

\* missing_dep_kinds with all() in the place of any()
MissingDepKindsOnEveryEdge(md) ==
    \A i \in DOMAIN md.resolve.nodes : \A d \in DOMAIN md.resolve.nodes[i] :
        md.resolve.nodes[i][d].dep_kinds = {}

missing_dep_kinds(md) ==
    \E i \in DOMAIN md.resolve.nodes : \E d \in DOMAIN md.resolve.nodes[i] :
        md.resolve.nodes[i][d].dep_kinds = {}

\* KeepsEdge with the negation of avoid_dev_deps lost
KeepsEdgeInverted(md, o, dep) ==
    \/ missing_dep_kinds(md)
    \/ \E kind \in dep.dep_kinds :
          \/ kind = "Normal"
          \/ o.avoid_dev_deps /\ kind = "Development"
          \/ ~o.avoid_build_deps /\ kind = "Build"

\* the closure of the filter at lib.rs 412-419
KeepsEdge(md, o, dep) ==
    \/ missing_dep_kinds(md)
    \/ \E kind \in dep.dep_kinds :
          \/ kind = "Normal"
          \/ ~o.avoid_dev_deps /\ kind = "Development"
          \/ ~o.avoid_build_deps /\ kind = "Build"

\* neighbors without the filter on the dependency kinds
NeighborsUnfiltered(md, o, package_id) ==
    [k \in 1..Len(md.resolve.nodes[package_id]) |-> md.resolve.nodes[package_id][k].pkg]

neighbors(md, o, package_id) ==
    LET kept == SelectSeq(md.resolve.nodes[package_id], LAMBDA dep : KeepsEdge(md, o, dep))
    IN  [k \in 1..Len(kept) |-> kept[k].pkg]

\* InitialStack that falls back on every package when there is no root
InitialStackOrAll(md) ==
    IF md.resolve.root # <<>> THEN md.resolve.root
    ELSE IF md.workspace_members # <<>> THEN md.workspace_members
    ELSE [i \in DOMAIN md.packages |-> md.packages[i].id]

\* the stack the loop starts from (lib.rs 424-428)
InitialStack(md) ==
    IF md.resolve.root # <<>> THEN md.resolve.root ELSE md.workspace_members

\* a visited check that always reports a new package
InsertedAlways(conn, package_id) == TRUE

\* what connected.insert(package_id) returns
Inserted(conn, package_id) == package_id \notin conn

\* one iteration of the while loop at lib.rs 429-433
Iterate(md, o, stk, conn) ==
    LET package_id == stk[Len(stk)]
        rest == SubSeq(stk, 1, Len(stk) - 1)
    IN  IF Inserted(conn, package_id)
        THEN [stack |-> rest \o neighbors(md, o, package_id),
              connected |-> conn \cup {package_id},
              expanded |-> TRUE]
        ELSE [stack |-> rest, connected |-> conn, expanded |-> FALSE]

RECURSIVE Traverse(_, _, _, _)
\* the whole loop: the connected set when the stack has run empty
Traverse(md, o, stk, conn) ==
    IF stk = <<>> THEN conn
    ELSE LET r == Iterate(md, o, stk, conn)
         IN  Traverse(md, o, r.stack, r.connected)

(* ------------------ the returned records (lib.rs 252-287, 437-446) ---- *)

\* the tokens of the texts of the records, in ascending order of the bytes
\* they are written with (an operator is written behind a blank, which puts
\* it before a closing parenthesis)
TextOrder ==
    <<"\n", " ", "AND", "OR", "(", ")", "/", "?", "Apache-2.0", "LICENSE", "MIT",
      "OpenSSL", "Zlib", "ann", "bob", "curl", "text", "url", "|">>

TextRank(tok) == CHOOSE i \in 1..Len(TextOrder) : TextOrder[i] = tok

RECURSIVE StringCmp(_, _, _)
\* Ord of String, from position i: lexicographic, a prefix before the longer
StringCmp(a, b, i) ==
    IF i > Len(a) /\ i > Len(b) THEN "Equal"
    ELSE IF i > Len(a) THEN "Less"
    ELSE IF i > Len(b) THEN "Greater"
    ELSE IF TextRank(a[i]) < TextRank(b[i]) THEN "Less"
    ELSE IF TextRank(a[i]) > TextRank(b[i]) THEN "Greater"
    ELSE StringCmp(a, b, i + 1)

\* Ord of Option<String>: None before Some
OptionCmp(a, b) ==
    IF a = <<>> /\ b = <<>> THEN "Equal"
    ELSE IF a = <<>> THEN "Less"
    ELSE IF b = <<>> THEN "Greater"
    ELSE StringCmp(a[1], b[1], 1)

Whitespace == {" ", "\n"}

RECURSIVE trim(_)
\* str::trim: without the white space at both ends
trim(s) ==
    IF s = <<>> THEN s
    ELSE IF s[1] \in Whitespace THEN trim(Tail(s))
    ELSE IF s[Len(s)] \in Whitespace THEN trim(SubSeq(s, 1, Len(s) - 1))
    ELSE s

\* str::replace('\n', " ")
replace(s) == [i \in 1..Len(s) |-> IF s[i] = "\n" THEN " " ELSE s[i]]

\* DependencyDetails::new (lib.rs 265-286)
DependencyDetails_new(package) ==
    [name |-> package.name,
     version |-> package.version,
     authors |-> IF package.authors = <<>> THEN <<>>
                 ELSE <<JoinWith([i \in 1..Len(package.authors) |-> <<package.authors[i]>>],
                                 "|")>>,
     repository |-> package.repository,
     license |-> IF package.license = <<>> THEN <<>>
                 ELSE <<normalize(package.license[1])>>,
     license_file |-> package.license_file,
     description |-> IF package.description = <<>> THEN <<>>
                     ELSE <<replace(trim(package.description[1]))>>]

\* DetailsLess that stops at the version
DetailsLessByNameVersion(a, b) ==
    \/ NameRank(a.name) < NameRank(b.name)
    \/ a.name = b.name /\ a.version < b.version

\* derived Ord of DependencyDetails (lib.rs 252-261): field by field in the
\* order of declaration, the first field that differs decides
DetailsLess(a, b) ==
    IF a.name # b.name THEN NameRank(a.name) < NameRank(b.name)
    ELSE IF a.version # b.version THEN a.version < b.version
    ELSE IF a.authors # b.authors THEN OptionCmp(a.authors, b.authors) = "Less"
    ELSE IF a.repository # b.repository
    THEN OptionCmp(a.repository, b.repository) = "Less"
    ELSE IF a.license # b.license THEN OptionCmp(a.license, b.license) = "Less"
    ELSE IF a.license_file # b.license_file
    THEN OptionCmp(a.license_file, b.license_file) = "Less"
    ELSE OptionCmp(a.description, b.description) = "Less"

RECURSIVE InsertDetails(_, _)
InsertDetails(x, sorted) ==
    IF sorted = <<>> THEN <<x>>
    ELSE IF DetailsLess(x, Head(sorted)) THEN <<x>> \o sorted
    ELSE <<Head(sorted)>> \o InsertDetails(x, Tail(sorted))

RECURSIVE sort_unstable(_)
sort_unstable(v) ==
    IF v = <<>> THEN <<>>
    ELSE InsertDetails(v[Len(v)], sort_unstable(SubSeq(v, 1, Len(v) - 1)))

\* the three filters at lib.rs 440-442
Retained(md, o, conn, p) ==
    /\ p.id \in conn
    /\ get_node_name_filter(md, o) = {} \/ p.name \in get_node_name_filter(md, o)
    /\ p.name \notin get_proc_macro_node_names(md, o)

\* lib.rs 437-446
Details(md, o, conn) ==
    LET kept == SelectSeq(md.packages, LAMBDA p : Retained(md, o, conn, p))
    IN  sort_unstable([k \in 1..Len(kept) |-> DependencyDetails_new(kept[k])])

get_dependencies_from_cargo_lock(md, o) ==
    Details(md, o, Traverse(md, o, InitialStack(md), {}))

\* the ids of the packages that a returned list has a record of
PackagesOf(md, details) ==
    {md.packages[i].id : i \in {j \in DOMAIN md.packages :
                                  DependencyDetails_new(md.packages[j]) \in Range(details)}}

(* ------------------------------ graph runs ---------------------------- *)

\* no license string is being normalized
NormalizeIdle ==
    /\ license_string = <<>>
    /\ operands = <<>>
    /\ output = <<>>
    /\ tree = <<>>
    /\ npc = "idle"
    /\ eq_prec_pops = FALSE

KindSets == {{"Normal"}, {"Development"}, {"Build"}, {"Development", "Build"}, {}}

FilterKindSets == {{"Normal"}, {"Development"}, {"Build"}, {}}

EdgeSets(n) == {E \in SUBSET (PackageIds \X PackageIds) : Cardinality(E) <= n}

\* edge sets without an edge from a package to itself
LoopFree(n) == {E \in EdgeSets(n) : \A e \in E : e[1] # e[2]}

\* a single root package, a workspace without a root package, and neither
RootConfigs ==
    {[root |-> <<1>>, members |-> <<1>>],
     [root |-> <<>>, members |-> <<1, 2>>],
     [root |-> <<>>, members |-> <<>>]}

DistinctNames == [i \in PackageIds |-> i]

\* every way for packages to share names, up to renaming
NameChoices ==
    {f \in [PackageIds -> PackageIds] :
        /\ f[1] = 1
        /\ \A i \in PackageIds : i > 1 => \E j \in 1..(i - 1) : f[i] <= f[j] + 1}

Flags ==
    [avoid_dev_deps : BOOLEAN, avoid_build_deps : BOOLEAN, avoid_proc_macros : BOOLEAN,
     direct_deps_only : BOOLEAN, root_only : BOOLEAN]

\* the state on entry to the while loop
Entry ==
    /\ stack = InitialStack(metadata)
    /\ connected = {}
    /\ detailed_dependencies = <<>>
    /\ gpc = "walk"
    /\ iterations = 0
    /\ expansions = [i \in PackageIds |-> 0]

\* graphs whose edge kinds vary, names distinct, no proc-macro target
InitWalk ==
    /\ NormalizeIdle
    /\ \E E \in EdgeSets(MaxEdges) : \E kinds \in [E -> KindSets] :
       \E cfg \in RootConfigs \ {[root |-> <<>>, members |-> <<>>]} :
          metadata = MakeMetadata(DistinctNames, {}, E, kinds, cfg)
    /\ opt \in {o \in Flags : ~o.avoid_proc_macros /\ ~o.direct_deps_only /\ ~o.root_only}
    /\ Entry

\* graphs whose names, proc-macro targets and roots vary, under every policy;
\* no package depends on itself
InitFilter ==
    /\ NormalizeIdle
    /\ \E E \in LoopFree(MaxFilterEdges) : \E kinds \in [E -> FilterKindSets] :
       \E names \in NameChoices : \E m \in {{}} \cup {{i} : i \in PackageIds} :
       \E cfg \in RootConfigs :
          metadata = MakeMetadata(names, m, E, kinds, cfg)
    /\ opt \in Flags
    /\ Entry

\* lib.rs 429-433
Visit ==
    /\ gpc = "walk"
    /\ stack # <<>>
    /\ LET r == Iterate(metadata, opt, stack, connected)
           package_id == stack[Len(stack)]
       IN  /\ stack' = r.stack
           /\ connected' = r.connected
           /\ expansions' = IF r.expanded
                            THEN [expansions EXCEPT ![package_id] = @ + 1]
                            ELSE expansions
    /\ iterations' = iterations + 1
    /\ UNCHANGED <<metadata, opt, detailed_dependencies, gpc>>
    /\ UNCHANGED nvars

\* lib.rs 434-446: the loop has ended; the filtered, sorted list is returned
\* as Ok(detailed_dependencies), the only exit of the function behind
\* metadata_command.exec()
Collect ==
    /\ gpc = "walk"
    /\ stack = <<>>
    /\ detailed_dependencies' = Details(metadata, opt, connected)
    /\ gpc' = "done"
    /\ UNCHANGED <<metadata, opt, stack, connected, iterations, expansions>>
    /\ UNCHANGED nvars

NextGraph == Visit \/ Collect

SpecWalk == InitWalk /\ [][NextGraph]_vars

SpecFilter == InitFilter /\ [][NextGraph]_vars

\* graphs in which the target of the package with a proc-macro target is
\* named like the package or otherwise, and packages share names, under every
\* policy; the edges are Normal or Build dependencies
InitMacro ==
    /\ NormalizeIdle
    /\ \E E \in LoopFree(MaxFilterEdges) : \E kinds \in [E -> {{"Normal"}, {"Build"}}] :
       \E names \in NameChoices :
       \E cfg \in RootConfigs \ {[root |-> <<>>, members |-> <<>>]} :
          \/ metadata = MakeMetadata(names, {}, E, kinds, cfg)
          \/ \E i \in PackageIds, n \in PackageIds :
                metadata = WithTargetName(MakeMetadata(names, {i}, E, kinds, cfg),
                                          i, PackageNames[n])
    /\ opt \in Flags
    /\ Entry

SpecMacro == InitMacro /\ [][NextGraph]_vars

\* a package as Cargo.toml describes it when nothing is filled in
BaseFields ==
    [name |-> "alpha", version |-> 1, authors |-> <<>>, repository |-> <<>>,
     license |-> <<>>, license_file |-> <<>>, description |-> <<>>]

\* BaseFields, and BaseFields with one field changed
FieldChoices ==
    {BaseFields,
     [BaseFields EXCEPT !.name = "beta"],
     [BaseFields EXCEPT !.version = 2],
     [BaseFields EXCEPT !.authors = <<"ann">>],
     [BaseFields EXCEPT !.authors = <<"ann", "bob">>],
     [BaseFields EXCEPT !.repository = <<<<"url">>>>],
     [BaseFields EXCEPT !.license = <<<<"MIT">>>>],
     [BaseFields EXCEPT !.license = <<<<"MIT", "OR", "Apache-2.0">>>>],
     [BaseFields EXCEPT !.license_file = <<<<"LICENSE">>>>],
     [BaseFields EXCEPT !.description = <<<<"text">>>>],
     [BaseFields EXCEPT !.description = <<<<"\n", "url", "\n", "text", " ">>>>]}

\* graphs of Normal dependencies below the root package 1, whose packages
\* agree in all fields of their records or differ in one or two of them
InitOrder ==
    /\ NormalizeIdle
    /\ \E E \in LoopFree(MaxFilterEdges) : \E fields \in [PackageIds -> FieldChoices] :
          metadata =
             WithFields(MakeMetadata([i \in PackageIds |-> NameRank(fields[i].name)], {}, E,
                                     [e \in E |-> {"Normal"}],
                                     [root |-> <<1>>, members |-> <<1>>]),
                        fields)
    /\ opt \in {o \in Flags : ~o.avoid_dev_deps /\ ~o.avoid_build_deps
                               /\ ~o.avoid_proc_macros /\ ~o.root_only}
    /\ Entry

SpecOrder == InitOrder /\ [][NextGraph]_vars

(* ====================== license normalisation claims ================== *)

ReqCount(l, s) == Cardinality({i \in 1..Len(s) : s[i] = l})

RECURSIVE Subtrees(_)
\* a tree and all the trees below it
Subtrees(t) ==
    IF t.tag = "License" THEN {t}
    ELSE {t} \cup UNION {Subtrees(t.nodes[i]) : i \in 1..Len(t.nodes)}

\* C1 (idempotence): normalizing the string that normalize returned gives
\* that string again.
C1_Idempotent == npc = "done" => normalize(output) = output

\* C2 (commutativity): for operands A and B, each a requirement or a
\* parenthesised expression, "A op B" and "B op A" normalize to the same string.
C2_Commutative ==
    (npc = "done" /\ operands # <<>>) =>
        normalize(operands[3] \o <<operands[2]>> \o operands[1]) = output

\* C3 as stated (deduplication): no operator node of the normalized tree has
\* two children with equal leaf sequences, and "X op X" normalizes like "X".
C3_Dedup ==
    (npc = "done" /\ tree # <<>>) =>
        /\ \A t \in Subtrees(tree[1]) : t.tag # "License" =>
              \A i, j \in 1..Len(t.nodes) :
                 i < j => LicenseTree_cmp(t.nodes[i], t.nodes[j]) # "Equal"
        /\ \A x \in Licenses, op \in {"OR", "AND"} :
              license_string = <<x, op, x>> => output = normalize(<<x>>)

\* C3 as amended: normalization drops no child: every requirement occurs in
\* the output as often as in the input, and "X op X" stays "X op X".
C3_KeepsDuplicates ==
    (npc = "done" /\ tree # <<>>) =>
        /\ \A l \in Licenses : ReqCount(l, output) = ReqCount(l, license_string)
        /\ \A x \in Licenses, op \in {"OR", "AND"} :
              license_string = <<x, op, x>> => output = <<x, op, x>>

C3_Witness ==
    /\ npc = "done"
    /\ license_string = <<"MIT", "OR", "MIT">>
    /\ output = <<"MIT", "OR", "MIT">>

\* C4 (flattening): in the normalized tree no Or node has an Or child and no
\* And node an And child, at any depth; so "A op (B op C)" normalizes like
\* "A op B op C".
C4_Flattened ==
    (npc = "done" /\ tree # <<>>) =>
        /\ \A t \in Subtrees(tree[1]) : t.tag # "License" =>
              \A i \in 1..Len(t.nodes) : t.nodes[i].tag # t.tag
        /\ \A a, b, c \in Licenses, op \in {"OR", "AND"} :
              license_string = <<a, op, "(", b, op, c, ")">> =>
                 output = normalize(<<a, op, b, op, c>>)

C4_Witness ==
    /\ npc = "done"
    /\ license_string = <<"OpenSSL", "OR", "(", "(", "MIT", "OR", "Apache-2.0", ")",
                          "OR", "MIT", ")">>
    /\ output = <<"Apache-2.0", "OR", "MIT", "OR", "MIT", "OR", "OpenSSL">>

\* C5 (fallback safety): a string the parser rejects is returned as it was
\* passed in, also when canonicalization had rewritten it.
C5_Fallback == (npc = "done" /\ ~Parses(license_string)) => output = license_string

C5_Witness ==
    /\ npc = "done"
    /\ canonicalize(license_string).some
    /\ canonicalize(license_string).text # license_string
    /\ ~Parses(license_string)
    /\ output = license_string

\* C6: "X AND (X OR Y)" and "(X OR Y) AND X" both normalize to the OR group
\* followed by X; in general, among the children of a node, a composite child
\* whose leaves begin with X stands before the bare requirement X.
C6_GroupFirst ==
    npc = "done" =>
        /\ \A x, y \in Licenses :
              license_string \in {<<x, "AND", "(", x, "OR", y, ")">>,
                                  <<"(", x, "OR", y, ")", "AND", x>>} =>
                 output = <<"(", IF ReqRank(x) <= ReqRank(y) THEN x ELSE y, "OR",
                            IF ReqRank(x) <= ReqRank(y) THEN y ELSE x, ")", "AND", x>>
        /\ tree # <<>> =>
              \A t \in Subtrees(tree[1]) : t.tag # "License" =>
                 \A i, j \in 1..Len(t.nodes) :
                    (/\ t.nodes[i].tag = "License"
                     /\ t.nodes[j].tag # "License"
                     /\ license_iter(t.nodes[j])[1] = t.nodes[i].req) => j < i

C6_Witness ==
    /\ npc = "done"
    /\ license_string = <<"Apache-2.0", "AND", "(", "Apache-2.0", "OR", "MIT", ")">>
    /\ output = <<"(", "Apache-2.0", "OR", "MIT", ")", "AND", "Apache-2.0">>

(* ======================= dependency graph claims ====================== *)

NoFlags ==
    [avoid_dev_deps |-> FALSE, avoid_build_deps |-> FALSE, avoid_proc_macros |-> FALSE,
     direct_deps_only |-> FALSE, root_only |-> FALSE]

\* the packages of the returned list
Result == PackagesOf(metadata, detailed_dependencies)

\* the root set: the root package, or else the workspace members
RootIds == Range(InitialStack(metadata))

\* the targets of the edges of package i, whatever their kinds
Targets(i) ==
    {metadata.resolve.nodes[i][d].pkg : d \in DOMAIN metadata.resolve.nodes[i]}

EdgeCount ==
    LET n == metadata.resolve.nodes
        RECURSIVE Sum(_)
        Sum(i) == IF i = 0 THEN 0 ELSE Len(n[i]) + Sum(i - 1)
    IN  Sum(NumPackages)

NameOf(i) == metadata.packages[i].name

\* C7 (reachability monotonicity): the result under rootOnly is contained in
\* the result under the same exclusion flags without rootOnly and
\* directDepsOnly, and that one in the result with all five flags off.
C7_Monotone ==
    gpc = "done" =>
        LET wide == [opt EXCEPT !.root_only = FALSE, !.direct_deps_only = FALSE]
        IN  /\ opt.root_only =>
                 Result \subseteq
                    PackagesOf(metadata, get_dependencies_from_cargo_lock(metadata, wide))
            /\ (~opt.root_only /\ ~opt.direct_deps_only) =>
                 Result \subseteq
                    PackagesOf(metadata, get_dependencies_from_cargo_lock(metadata, NoFlags))

C7_Witness ==
    /\ gpc = "done"
    /\ opt.root_only
    /\ LET wide == [opt EXCEPT !.root_only = FALSE, !.direct_deps_only = FALSE]
           mid == PackagesOf(metadata, get_dependencies_from_cargo_lock(metadata, wide))
           all == PackagesOf(metadata, get_dependencies_from_cargo_lock(metadata, NoFlags))
       IN  /\ Result # {}
           /\ Result # mid
           /\ mid # all

\* C8 (cycle safety): on graphs with cycles and self-loops too, the loop
\* pushes the neighbours of each package at most once, so it ends after at
\* most one iteration per root and per edge, with a stack that never holds
\* more than that many entries.
C8_CycleSafe ==
    /\ \A i \in PackageIds : expansions[i] <= 1
    /\ iterations + Len(stack) <= Len(InitialStack(metadata)) + EdgeCount
    /\ gpc = "done" => stack = <<>>

\* root 1 with the cycle 2 <-> 3 behind it
C8_Witness ==
    /\ gpc = "done"
    /\ metadata.resolve.root = <<1>>
    /\ Targets(1) = {2}
    /\ Targets(2) = {3}
    /\ Targets(3) = {2}
    /\ connected = {1, 2, 3}
    /\ Result = {1, 2, 3}
    /\ iterations = 4

\* C9 (rootOnly): with rootOnly the result is exactly the root set, whatever
\* the other flags.
C9_RootOnly == (gpc = "done" /\ opt.root_only) => Result = RootIds

\* C10 as stated (directDepsOnly): the result is the root set plus every
\* package adjacent to a root over an edge of any kind, and nothing else.
C10_Direct ==
    (gpc = "done" /\ opt.direct_deps_only /\ ~opt.root_only) =>
        Result = RootIds \cup UNION {Targets(r) : r \in RootIds}

\* C10 as amended: the result is the set of the packages that the traversal
\* visited, that carry the name of a root or of a package adjacent to a root
\* over an edge of any kind, and whose name is not excluded as a proc-macro
\* name.
C10_DirectByName ==
    (gpc = "done" /\ opt.direct_deps_only /\ ~opt.root_only) =>
        LET names == {NameOf(i) : i \in RootIds \cup UNION {Targets(r) : r \in RootIds}}
        IN  Result = {i \in connected :
                         /\ NameOf(i) \in names
                         /\ NameOf(i) \notin get_proc_macro_node_names(metadata, opt)}

\* a direct dependency that the traversal did not reach is left out
C10_Witness ==
    /\ gpc = "done"
    /\ opt.direct_deps_only /\ ~opt.root_only /\ ~opt.avoid_proc_macros
    /\ \E r \in RootIds : \E i \in Targets(r) : i \notin connected
    /\ Result = RootIds
    /\ RootIds # {}

(* ================= ordering and serialization claims ================== *)

\* a is a strict prefix of b
IsStrictPrefix(a, b) == Len(a) < Len(b) /\ SubSeq(b, 1, Len(a)) = a

\* C15 as stated (prefix rule): among the children of an operator node of the
\* normalized tree, a child whose leaf sequence is a strict prefix of another
\* child's leaf sequence stands before that child.
C15_ShorterFirst ==
    (npc = "done" /\ tree # <<>>) =>
        \A t \in Subtrees(tree[1]) : t.tag # "License" =>
           \A i, j \in 1..Len(t.nodes) :
              IsStrictPrefix(license_iter(t.nodes[i]), license_iter(t.nodes[j])) => i < j

\* C15 as amended: a child whose leaf sequence is a strict prefix of another
\* child's leaf sequence stands behind that child: the child with more
\* leaves is sorted and serialized first.
C15_LongerFirst ==
    (npc = "done" /\ tree # <<>>) =>
        \A t \in Subtrees(tree[1]) : t.tag # "License" =>
           \A i, j \in 1..Len(t.nodes) :
              IsStrictPrefix(license_iter(t.nodes[i]), license_iter(t.nodes[j])) => j < i

C15_Witness ==
    /\ npc = "done"
    /\ license_string = <<"MIT", "OR", "(", "MIT", "AND", "OpenSSL", ")">>
    /\ output = <<"(", "MIT", "AND", "OpenSSL", ")", "OR", "MIT">>
    /\ IsStrictPrefix(license_iter(tree[1].nodes[2]), license_iter(tree[1].nodes[1]))

Opens(s, a, b) == Cardinality({m \in a..b : s[m] = "("})

Closes(s, a, b) == Cardinality({m \in a..b : s[m] = ")"})

\* the position of the ")" that closes the "(" at position i
Closing(s, i) ==
    CHOOSE j \in (i + 1)..Len(s) :
        /\ s[j] = ")"
        /\ Opens(s, i, j) = Closes(s, i, j)
        /\ \A k \in (i + 1)..(j - 1) : s[k] = ")" => Opens(s, i, k) # Closes(s, i, k)

\* s without the tokens at positions i and j
Without(s, i, j) ==
    SubSeq(s, 1, i - 1) \o SubSeq(s, i + 1, j - 1) \o SubSeq(s, j + 1, Len(s))

\* the group between the parentheses at i and j is a chain of ORs
GroupIsOr(s, i, j) ==
    \E k \in (i + 1)..(j - 1) : s[k] = "OR" /\ Opens(s, i + 1, k) = Closes(s, i + 1, k)

\* the tree that a string is parsed and normalized to
Meaning(s) == NormalizeRun(s).tree

EdgesWhere(P(_)) ==
    UNION {{<<i, metadata.resolve.nodes[i][d].pkg>> :
               d \in {e \in DOMAIN metadata.resolve.nodes[i] : P(metadata.resolve.nodes[i][e])}}
           : i \in PackageIds}

\* a dependency kind that the policy does not exclude
SurvivingKind(kind) ==
    \/ kind = "Normal"
    \/ kind = "Development" /\ ~opt.avoid_dev_deps
    \/ kind = "Build" /\ ~opt.avoid_build_deps

Survives(dep) == \E kind \in dep.dep_kinds : SurvivingKind(kind)

Untagged(dep) == dep.dep_kinds = {}

AnyEdge(dep) == TRUE

\* tagged, and with excluded kinds only
OnlyExcluded(dep) == ~Untagged(dep) /\ ~Survives(dep)

RECURSIVE ReachFrom(_, _)
\* the packages that paths of edges of E lead to from the packages of S
ReachFrom(S, E) ==
    LET T == S \cup {e[2] : e \in {f \in E : f[1] \in S}}
    IN  IF T = S THEN S ELSE ReachFrom(T, E)

\* C12 as stated (edge-kind policy): whatever the tags of the other edges, an
\* edge tagged only with excluded kinds is never followed: every visited
\* package is reachable from the roots over edges that are not of that sort,
\* and so is every package of the result.
C12_PerEdge ==
    gpc = "done" =>
        LET allowed == ReachFrom(RootIds, EdgesWhere(LAMBDA dep : ~OnlyExcluded(dep)))
        IN  connected \subseteq allowed /\ Result \subseteq allowed

\* C12 as amended: when every edge of the graph carries a kind tag, the
\* traversal follows exactly the edges with a surviving kind; when some edge
\* of the graph carries no tag, it follows every edge, those tagged only with
\* excluded kinds too.
C12_GlobalFlag ==
    gpc = "done" =>
        /\ EdgesWhere(Untagged) = {} =>
              connected = ReachFrom(RootIds, EdgesWhere(Survives))
        /\ EdgesWhere(Untagged) # {} =>
              connected = ReachFrom(RootIds, EdgesWhere(AnyEdge))
        /\ Result = connected

\* R -> A (Normal) -> B (Development only) with excludeDev gives {R, A}
C12_Witness ==
    /\ gpc = "done"
    /\ opt.avoid_dev_deps
    /\ metadata.resolve.root = <<1>>
    /\ EdgesWhere(AnyEdge) = {<<1, 2>>, <<2, 3>>}
    /\ metadata.resolve.nodes[1][1].dep_kinds = {"Normal"}
    /\ metadata.resolve.nodes[2][1].dep_kinds = {"Development"}
    /\ Result = {1, 2}

\* C17 (completeness, fail-open edges): when the traversal has ended, the
\* visited set holds every root and every package reachable from a root over
\* edges that carry a surviving kind or no kind tag at all; an untagged edge
\* out of a visited package is followed under every policy.
C17_Complete ==
    gpc = "done" =>
        /\ RootIds \subseteq connected
        /\ ReachFrom(RootIds, EdgesWhere(LAMBDA dep : Survives(dep) \/ Untagged(dep)))
              \subseteq connected
        /\ \A e \in EdgesWhere(Untagged) : e[1] \in connected => e[2] \in connected

\* an untagged edge is followed although both exclusions are on, next to an
\* edge that is tagged
C17_Witness ==
    /\ gpc = "done"
    /\ opt.avoid_dev_deps /\ opt.avoid_build_deps
    /\ metadata.resolve.root = <<1>>
    /\ <<1, 2>> \in EdgesWhere(Untagged)
    /\ EdgesWhere(LAMBDA dep : ~Untagged(dep)) # {}
    /\ 2 \in connected

(* ============================ root claims ============================= *)

\* the input names no root package and no workspace member
NoRoots == metadata.resolve.root = <<>> /\ metadata.workspace_members = <<>>

\* C13 as stated (NoRootPackage is fatal): with no root package and no
\* workspace members the function does not return a list.
C13_Fatal == NoRoots => gpc # "done"

\* C13 as amended: with no root package and no workspace members the loop
\* body never runs, nothing is visited, and the function returns Ok with the
\* empty list.
C13_EmptyList ==
    (NoRoots /\ gpc = "done") =>
        /\ detailed_dependencies = <<>>
        /\ connected = {}
        /\ iterations = 0

C13_Witness ==
    /\ NoRoots
    /\ gpc = "done"
    /\ detailed_dependencies = <<>>
    /\ \E i \in PackageIds : metadata.resolve.nodes[i] # <<>>

(* ========================= proc-macro claims ========================== *)

\* package i has a build target of crate type proc-macro
HasProcMacro(i) ==
    \E t \in DOMAIN metadata.packages[i].targets :
        "proc-macro" \in Range(metadata.packages[i].targets[t].crate_types)

\* the packages with a proc-macro target and the packages they depend on
ProcMacroPackages ==
    {i \in PackageIds : HasProcMacro(i) \/ \E m \in PackageIds : HasProcMacro(m) /\ i \in Targets(m)}

\* C11 (proc-macro exclusion): with excludeProcMacros the result holds no
\* package with a proc-macro target and no package that such a package
\* depends on directly.
C11_Excluded ==
    (gpc = "done" /\ opt.avoid_proc_macros) => Result \cap ProcMacroPackages = {}

\* C18 (frame of the proc-macro exclusion): the result with excludeProcMacros
\* is the result of the same flags without it, minus the packages with a
\* proc-macro target and their direct dependencies; nothing else goes.
C18_Frame ==
    (gpc = "done" /\ opt.avoid_proc_macros) =>
        Result =
            PackagesOf(metadata,
                       get_dependencies_from_cargo_lock(
                           metadata, [opt EXCEPT !.avoid_proc_macros = FALSE]))
            \ ProcMacroPackages

(* ============================ order claims ============================ *)

\* the comparison of two records field by field, in the order
\* (name, version, authors, repository, license, license_file, description)
FieldOrder(a, b) ==
    <<IF a.name = b.name THEN "Equal"
      ELSE IF NameRank(a.name) < NameRank(b.name) THEN "Less" ELSE "Greater",
      IF a.version = b.version THEN "Equal"
      ELSE IF a.version < b.version THEN "Less" ELSE "Greater",
      OptionCmp(a.authors, b.authors),
      OptionCmp(a.repository, b.repository),
      OptionCmp(a.license, b.license),
      OptionCmp(a.license_file, b.license_file),
      OptionCmp(a.description, b.description)>>

\* a does not come behind b in the lexicographic order of the tuples
TupleLeq(a, b) ==
    \A k \in 1..7 : FieldOrder(a, b)[k] = "Greater" =>
        \E m \in 1..(k - 1) : FieldOrder(a, b)[m] = "Less"

\* C14 (output order): the returned records stand in ascending lexicographic
\* order of (name, version, authors, repository, license, license_file,
\* description), and they are the records of the packages that passed the
\* filters, one each.
C14_Sorted ==
    gpc = "done" =>
        /\ \A i, j \in 1..Len(detailed_dependencies) :
              i < j => TupleLeq(detailed_dependencies[i], detailed_dependencies[j])
        /\ Len(detailed_dependencies) =
              Cardinality({i \in PackageIds :
                              Retained(metadata, opt, connected, metadata.packages[i])})
        /\ \A i \in PackageIds :
              Retained(metadata, opt, connected, metadata.packages[i]) =>
                 DependencyDetails_new(metadata.packages[i]) \in Range(detailed_dependencies)

\* three records with the same name and version, returned in another order
\* than the packages were listed and visited in: None before Some, and the
\* normalized license text decides, not the declared one
C14_Witness ==
    /\ gpc = "done"
    /\ Len(detailed_dependencies) = 3
    /\ metadata.packages[1].license = <<<<"MIT">>>>
    /\ metadata.packages[2].license = <<<<"MIT", "OR", "Apache-2.0">>>>
    /\ metadata.packages[3].description = <<<<"text">>>>
    /\ detailed_dependencies[1] = DependencyDetails_new(metadata.packages[3])
    /\ detailed_dependencies[2] = DependencyDetails_new(metadata.packages[2])
    /\ detailed_dependencies[3] = DependencyDetails_new(metadata.packages[1])
    /\ detailed_dependencies[2].license = <<<<"Apache-2.0", "OR", "MIT">>>>

====
